---- MODULE Spec2Model ----
(***************************************************************************)
(* The review orchestration of the pull-request reviewer agent:            *)
(* MemorySystem (the Ledger), CodeAnalyzer (the analysis dispatcher) and   *)
(* PRReviewerAgent (scan, review of one request, the continuous loop).     *)
(* The platform client and the oracle are the environment: every answer    *)
(* they give is an input drawn from a small set.                           *)
(***************************************************************************)
EXTENDS Integers, Sequences, FiniteSets, TLC

VARIABLES
    reviewed_prs,      \* MemorySystem.reviewed_prs: pr_id -> review_data
    org_repos,         \* MemorySystem.org_repos
    review_history,    \* MemorySystem.review_history
    coding_standards,  \* MemorySystem.coding_standards: language -> document
    pc,                \* where the driver is: "idle", the loop's "refresh", "scan",
                       \* "review", "sleep", then "stopped" (loop left) or "killed"
    interval,          \* run_continuous_review's interval_minutes
    open_prs,          \* the last result of scan_for_new_prs
    idx,               \* position of the loop's "for pr in open_prs"
    stop_cause,        \* which except clause ended run_continuous_review
    calls,             \* number of review_pull_request calls made so far
    submit_calls,      \* log of the submit_review calls the platform received
    last,              \* inputs and outcome of the latest review_pull_request call
    listing,           \* the latest scan: the repositories it went through and
                       \* what the platform answered for each
    tried,             \* keys review_pull_request was called for in the current cycle
    failed_cur,        \* keys whose latest review, in the current cycle, failed
    failed_prev,       \* keys whose latest review, in the previous cycle, failed
    last_load,         \* the latest call that wrote the coding standards: its
                       \* argument, the standards before it, how it ended
    refreshed          \* the repository names the platform returned to the latest
                       \* update_org_repos that succeeded

vars == << reviewed_prs, org_repos, review_history, coding_standards, pc, interval,
           open_prs, idx, stop_cause, calls, submit_calls, last, listing, tried,
           failed_cur, failed_prev, last_load, refreshed >>

memory == << reviewed_prs, org_repos, review_history, coding_standards >>

-----------------------------------------------------------------------------
(* Bounds of the model.                                                    *)

\* review_pull_request calls in one behaviour of the orchestration (Spec)
MaxCalls == 2
\* review_pull_request calls in one behaviour of the pipeline check (ReviewSpec)
MaxDirectCalls == 2

\* the size ceiling of a reviewed file, in characters
SizeCeiling == 100000

\* the length of "Error retrieving content: ", which _get_file_content puts
\* before the message of the exception
ErrorPrefixLen == 26

-----------------------------------------------------------------------------
(* Python helpers.                                                         *)

\* dict.get(key, default)
Get(d, k, default) == IF k \in DOMAIN d THEN d[k] ELSE default

EmptyDict == << >>

RECURSIVE SumSeq(_)
SumSeq(s) == IF s = << >> THEN 0 ELSE Head(s) + SumSeq(Tail(s))

\* f"{repo_name}_{pr_number}"
PrId(repo_name, pr_number) == repo_name \o "_" \o ToString(pr_number)

\* format(x, ".1f") of x = num / den, in tenths: the nearest tenth, a tie going
\* to the even digit (num / den is exact in binary whenever it is a tie, for a
\* tie is an odd multiple of 1/20 and den < 20 leaves only the odd quarters)
FormatTenths(num, den) ==
    LET q == (10 * num) \div den
        r == (10 * num) % den
    IN  IF 2 * r < den THEN q
        ELSE IF 2 * r > den THEN q + 1
        ELSE IF q % 2 = 0 THEN q ELSE q + 1

\* str.upper() on the severities
Upper(s) ==
    CASE s = "high" -> "HIGH"
      [] s = "medium" -> "MEDIUM"
      [] s = "low" -> "LOW"
      [] OTHER -> s

-----------------------------------------------------------------------------
(* MemorySystem                                                            *)

\* store_review: the mapping after the call
StoreMapping(mapping, pr_id, review_data) == (pr_id :> review_data) @@ mapping

\* the history as a table: an earlier entry of the key is replaced
StoreHistoryReplacing(history, pr_id, review_data, now) ==
    Append(SelectSeq(history, LAMBDA entry : entry.pr_id # pr_id),
           [pr_id |-> pr_id, timestamp |-> now, review |-> review_data])

\* store_review: the history after the call; time.time() is the logical time now
StoreHistory(history, pr_id, review_data, now) ==
    Append(history, [pr_id |-> pr_id, timestamp |-> now, review |-> review_data])

\* the names added to the stored list
SetOrgReposMerging(stored, repos) == stored \o repos

\* set_org_repos: self.org_repos = repos, stored being the list before
SetOrgRepos(stored, repos) == repos

\* the test left out: every open request is taken for a new one
NotReviewedUnchecked(pr_id) == TRUE

\* "pr_id not in self.memory.reviewed_prs"
NotReviewed(pr_id) == pr_id \notin DOMAIN reviewed_prs

\* load_default_standards: each document stands for its style guide
DefaultStandards ==
    [Python |-> [style_guide |-> "PEP 8"],
     JavaScript |-> [style_guide |-> "Airbnb"],
     Java |-> [style_guide |-> "Google Java Style Guide"]]

\* what json.load may give, or a caller may pass: a dict, a list of items (an
\* item being a key-value pair, or something that is none), or a scalar
AsDict(d) == [kind |-> "dict", dict |-> d, items |-> << >>]
AsList(items) == [kind |-> "list", dict |-> EmptyDict, items |-> items]
Scalar == [kind |-> "scalar", dict |-> EmptyDict, items |-> << >>]
Pair(key, value) == [pair |-> TRUE, key |-> key, value |-> value]
NoPair == [pair |-> FALSE, key |-> "", value |-> EmptyDict]

\* dict.update on a list: the pairs are set one by one, and an item that is no
\* pair raises, the pairs before it being set
RECURSIVE UpdateFromItems(_, _, _)
UpdateFromItems(standards, items, i) ==
    IF i > Len(items) THEN [raised |-> FALSE, standards |-> standards]
    ELSE IF ~ items[i].pair THEN [raised |-> TRUE, standards |-> standards]
    ELSE UpdateFromItems((items[i].key :> items[i].value) @@ standards, items, i + 1)

\* a deep merge: the keys of a stored document that the new one lacks are kept
UpdateDeepMerge(standards, arg) ==
    CASE arg.kind = "dict" ->
            [raised |-> FALSE,
             standards |->
                [lang \in DOMAIN arg.dict \cup DOMAIN standards |->
                    IF lang \notin DOMAIN arg.dict THEN standards[lang]
                    ELSE IF lang \notin DOMAIN standards THEN arg.dict[lang]
                    ELSE arg.dict[lang] @@ standards[lang]]]
      [] arg.kind = "list" -> UpdateFromItems(standards, arg.items, 1)
      [] OTHER -> [raised |-> TRUE, standards |-> standards]

\* update_coding_standards: self.coding_standards.update(standards);
\* [raised, standards] is whether it raised and the standards it leaves
UpdateCodingStandards(standards, arg) ==
    CASE arg.kind = "dict" -> [raised |-> FALSE, standards |-> arg.dict @@ standards]
      [] arg.kind = "list" -> UpdateFromItems(standards, arg.items, 1)
      [] OTHER -> [raised |-> TRUE, standards |-> standards]

-----------------------------------------------------------------------------
(* PRReviewerAgent.load_custom_standards                                   *)

\* no try block: what open, json.load or update raises reaches the caller
LoadCustomStandardsUnguarded(standards, file) ==
    IF file.status # "json"
    THEN [raised |-> TRUE, failed |-> TRUE, standards |-> standards]
    ELSE [raised |-> UpdateCodingStandards(standards, file.json).raised,
          failed |-> UpdateCodingStandards(standards, file.json).raised,
          standards |-> UpdateCodingStandards(standards, file.json).standards]

\* load_custom_standards: file.status is "missing", "unreadable" (open raises),
\* "invalid_json" (json.load raises) or "json", file.json being what json.load
\* returns; failed tells the except clause was entered
LoadCustomStandards(standards, file) ==
    IF file.status # "json"
    THEN [raised |-> FALSE, failed |-> TRUE, standards |-> standards]
    ELSE [raised |-> FALSE,
          failed |-> UpdateCodingStandards(standards, file.json).raised,
          standards |-> UpdateCodingStandards(standards, file.json).standards]

-----------------------------------------------------------------------------
(* CodeAnalyzer                                                            *)

\* os.path.splitext(file_path)[1].lower(), for the file names of the model
Ext(file_path) ==
    CASE file_path \in {"x.py", "a.py"} -> ".py"
      [] file_path = "y.js" -> ".js"
      [] file_path = "z.java" -> ".java"
      [] file_path = "big.bin" -> ".bin"
      [] file_path = "e.txt" -> ".txt"
      [] OTHER -> ""

\* _detect_language
DetectLanguage(file_path) ==
    LET ext == Ext(file_path)
        language_map == (".py" :> "Python") @@ (".js" :> "JavaScript")
                        @@ (".ts" :> "TypeScript") @@ (".java" :> "Java")
    IN  Get(language_map, ext, "Unknown")

\* json.loads guarded: a text that is no JSON gives an error-flagged result
AnalyzeCodeLenient(response) ==
    IF response.raises THEN [raised |-> TRUE, analysis |-> EmptyDict]
    ELSE IF response.status_code = 200 /\ response.valid
         THEN [raised |-> FALSE, analysis |-> response.json]
         ELSE [raised |-> FALSE,
               analysis |-> [error |-> "API request failed", message |-> "text"]]

\* response.raise_for_status() added: a non-success response raises
AnalyzeCodeStrict(response) ==
    IF response.raises \/ response.status_code # 200
    THEN [raised |-> TRUE, analysis |-> EmptyDict]
    ELSE IF response.valid
         THEN [raised |-> FALSE, analysis |-> response.json]
         ELSE [raised |-> TRUE, analysis |-> EmptyDict]

\* analyze_code, given the answer of the oracle to its one request:
\*   response.raises        requests.post raised
\*   response.status_code   the transport status
\*   response.valid         the embedded text is valid JSON
\*   response.json          the JSON object it holds
AnalyzeCode(response) ==
    IF response.raises THEN [raised |-> TRUE, analysis |-> EmptyDict]
    ELSE IF response.status_code = 200
         THEN IF response.valid
              THEN [raised |-> FALSE, analysis |-> response.json]
              ELSE [raised |-> TRUE, analysis |-> EmptyDict]
         ELSE [raised |-> FALSE,
               analysis |-> [error |-> "API request failed", message |-> "text"]]

IssueKeys == {"line_number", "severity", "description", "suggestion"}
ChangeKeys == {"suggested_code", "explanation", "line_number"}

IssueComment(issue, file_path) ==
    [path |-> file_path, position |-> issue["line_number"],
     body |-> << Upper(issue["severity"]), issue["description"], issue["suggestion"] >>]

ChangeComment(change, file_path) ==
    [path |-> file_path, position |-> change["line_number"],
     body |-> << "suggestion", change["suggested_code"], change["explanation"] >>]

\* the loop over the suggested changes left out
FormatIssuesOnly(analysis, file_path) ==
    LET issues == Get(analysis, "issues", << >>)
    IN  IF \A i \in 1..Len(issues) : IssueKeys \subseteq DOMAIN issues[i]
        THEN [raised |-> FALSE,
              comments |-> [i \in 1..Len(issues) |-> IssueComment(issues[i], file_path)]]
        ELSE [raised |-> TRUE, comments |-> << >>]

\* format_review_comments: a KeyError when an issue or a change lacks a key it reads
FormatReviewComments(analysis, file_path) ==
    LET issues == Get(analysis, "issues", << >>)
        changes == Get(analysis, "suggested_changes", << >>)
        complete == /\ \A i \in 1..Len(issues) : IssueKeys \subseteq DOMAIN issues[i]
                    /\ \A i \in 1..Len(changes) : ChangeKeys \subseteq DOMAIN changes[i]
    IN  IF complete
        THEN [raised |-> FALSE,
              comments |-> [i \in 1..Len(issues) |-> IssueComment(issues[i], file_path)]
                           \o [i \in 1..Len(changes) |-> ChangeComment(changes[i], file_path)]]
        ELSE [raised |-> TRUE, comments |-> << >>]

-----------------------------------------------------------------------------
(* PRReviewerAgent.review_pull_request                                     *)

\* ">=" for ">": a file of exactly the ceiling is skipped
SkipFromCeiling(file) == file.content = 0 \/ file.content >= SizeCeiling

\* "if not file['content'] or len(file['content']) > 100000: continue";
\* a content is modelled by its length
Skip(file) == file.content = 0 \/ file.content > SizeCeiling

\* an error-flagged analysis left out of the file analyses
ReviewAnalysedDroppingErrors(acc, file, analysis, c) ==
    IF c.raised THEN [acc EXCEPT !.raised = TRUE]
    ELSE IF "error" \in DOMAIN analysis THEN acc
    ELSE [acc EXCEPT
            !.all_comments = @ \o c.comments,
            !.file_analyses = Append(@,
                [filename |-> file.filename,
                 code_quality_score |-> Get(analysis, "code_quality_score", 0),
                 issue_count |-> Len(Get(analysis, "issues", << >>)),
                 suggestion_count |-> Len(Get(analysis, "suggested_changes", << >>))])]

\* one round of "for file in files": the accumulator after this file
\*   acc.raised           an exception left the loop
\*   acc.all_comments     all_comments
\*   acc.file_analyses    overall_analysis["file_analyses"]
\*   acc.oracle_calls     the files analyze_code was called for, in order
\* the part after analyze_code returned analysis
ReviewAnalysed(acc, file, analysis, c) ==
    IF c.raised THEN [acc EXCEPT !.raised = TRUE]
    ELSE [acc EXCEPT
            !.all_comments = @ \o c.comments,
            !.file_analyses = Append(@,
                [filename |-> file.filename,
                 code_quality_score |-> Get(analysis, "code_quality_score", 0),
                 issue_count |-> Len(Get(analysis, "issues", << >>)),
                 suggestion_count |-> Len(Get(analysis, "suggested_changes", << >>))])]

\* the part from the call of analyze_code, a being what it does
ReviewCalled(acc, file, a) ==
    IF a.raised THEN [acc EXCEPT !.raised = TRUE]
    ELSE ReviewAnalysed(acc, file, a.analysis,
                        FormatReviewComments(a.analysis, file.filename))

ReviewFile(acc, file, response) ==
    IF acc.raised \/ Skip(file) THEN acc
    ELSE ReviewCalled(
            [acc EXCEPT !.oracle_calls = Append(@,
                [filename |-> file.filename,
                 language |-> DetectLanguage(file.filename),
                 standards |-> Get(coding_standards, DetectLanguage(file.filename),
                                   EmptyDict)])],
            file, AnalyzeCode(response))

RECURSIVE ReviewFilesFrom(_, _, _, _)
ReviewFilesFrom(acc, files, responses, i) ==
    IF i > Len(files) THEN acc
    ELSE ReviewFilesFrom(ReviewFile(acc, files[i], responses[i]), files, responses, i + 1)

\* the whole "for file in files" loop
ReviewFiles(files, responses) ==
    ReviewFilesFrom([raised |-> FALSE, all_comments |-> << >>, file_analyses |-> << >>,
                     oracle_calls |-> << >>], files, responses, 1)

\* "if file['code_quality_score']" for "if 'code_quality_score' in file": a
\* score of 0 is left out of the mean
AvgQualityNonZero(file_analyses) ==
    LET scores == [i \in 1..Len(file_analyses) |-> file_analyses[i].code_quality_score]
        quality_scores == SelectSeq(scores, LAMBDA x : x # 0)
    IN  IF quality_scores # << >>
        THEN << SumSeq(quality_scores), Len(quality_scores) >>
        ELSE << 0, 1 >>

\* quality_scores and avg_quality: the mean as the fraction << sum, count >>,
\* << 0, 1 >> for "else 0"
AvgQuality(file_analyses) ==
    LET quality_scores == [i \in 1..Len(file_analyses) |->
                              file_analyses[i].code_quality_score]
    IN  IF quality_scores # << >>
        THEN << SumSeq(quality_scores), Len(quality_scores) >>
        ELSE << 0, 1 >>

\* the rendered summary: what each of its lines shows
Summary(overall_analysis) ==
    LET fa == overall_analysis.file_analyses
        avg == AvgQuality(fa)
    IN  [score_tenths |-> FormatTenths(avg[1], avg[2]),
         file_count |-> overall_analysis.file_count,
         total_changes |-> overall_analysis.total_changes,
         issues |-> SumSeq([i \in 1..Len(fa) |-> fa[i].issue_count]),
         suggestions |-> SumSeq([i \in 1..Len(fa) |-> fa[i].suggestion_count]),
         breakdown |-> fa]

\* review_data, built from what the file loop left and the review's id
ReviewData(repo_name, pr_number, files, rf, review_id) ==
    [review_id |-> review_id, pr_number |-> pr_number, repo_name |-> repo_name,
     comment_count |-> Len(rf.all_comments),
     summary |-> Summary([file_count |-> Len(files),
                          total_changes |-> SumSeq([i \in 1..Len(files) |->
                                                       files[i].changes]),
                          file_analyses |-> rf.file_analyses]),
     overall_analysis |-> [file_count |-> Len(files),
                           total_changes |-> SumSeq([i \in 1..Len(files) |->
                                                        files[i].changes]),
                           file_analyses |-> rf.file_analyses]]

\* how a try block ended: exc is "none", "Exception" or "KeyboardInterrupt", at
\* the statement it was raised at; with what the block called and left in memory
Ended(exc, at, oracle_calls, comments, submitted, review_data, mapping, history) ==
    [exc |-> exc, at |-> at, oracle_calls |-> oracle_calls, comments |-> comments,
     submitted |-> submitted, review_data |-> review_data, mapping |-> mapping,
     history |-> history]

\* store_review moved before submit_review
StoreThenSubmit(mapping, history, now, pr_id, rf, review_data, submit, intr) ==
    Ended(IF submit.raised THEN "Exception" ELSE "none",
          IF submit.raised THEN "submit" ELSE "return",
          rf.oracle_calls, rf.all_comments, ~ submit.raised, review_data,
          StoreMapping(mapping, pr_id, review_data),
          StoreHistory(history, pr_id, review_data, now))

\* the try block from the submit_review call on, rf being what the file loop left
SubmitAndStore(mapping, history, now, pr_id, rf, review_data, submit, intr) ==
    IF submit.raised
    THEN Ended("Exception", "submit", rf.oracle_calls, rf.all_comments, FALSE,
               EmptyDict, mapping, history)
    ELSE CASE intr = "store" ->
                Ended("KeyboardInterrupt", "store", rf.oracle_calls, rf.all_comments,
                      TRUE, review_data, mapping, history)
           [] intr = "history" ->
                Ended("KeyboardInterrupt", "history", rf.oracle_calls, rf.all_comments,
                      TRUE, review_data, StoreMapping(mapping, pr_id, review_data),
                      history)
           [] intr = "return" ->
                Ended("KeyboardInterrupt", "return", rf.oracle_calls, rf.all_comments,
                      TRUE, review_data, StoreMapping(mapping, pr_id, review_data),
                      StoreHistory(history, pr_id, review_data, now))
           [] OTHER ->
                Ended("none", "return", rf.oracle_calls, rf.all_comments,
                      TRUE, review_data, StoreMapping(mapping, pr_id, review_data),
                      StoreHistory(history, pr_id, review_data, now))

\* the try block from the file loop on
AnalyseAndSubmit(mapping, history, now, repo_name, pr_number, files, rf, submit, intr) ==
    IF rf.raised
    THEN Ended("Exception", "analyze", rf.oracle_calls, << >>, FALSE, EmptyDict,
               mapping, history)
    ELSE IF intr = "analyze"
    THEN Ended("KeyboardInterrupt", "analyze", rf.oracle_calls, << >>, FALSE,
               EmptyDict, mapping, history)
    ELSE SubmitAndStore(mapping, history, now, PrId(repo_name, pr_number), rf,
                        ReviewData(repo_name, pr_number, files, rf, submit.id),
                        submit, intr)

\* the request marked as reviewed when its review begins
TryBlockMarking(mapping, history, now, repo_name, pr_number, fetch, responses, submit, intr) ==
    IF intr = "fetch"
    THEN Ended("KeyboardInterrupt", "fetch", << >>, << >>, FALSE, EmptyDict,
               StoreMapping(mapping, PrId(repo_name, pr_number), EmptyDict), history)
    ELSE IF fetch.raised
    THEN Ended("Exception", "fetch", << >>, << >>, FALSE, EmptyDict,
               StoreMapping(mapping, PrId(repo_name, pr_number), EmptyDict), history)
    ELSE AnalyseAndSubmit(StoreMapping(mapping, PrId(repo_name, pr_number), EmptyDict),
                          history, now, repo_name, pr_number, fetch.files,
                          ReviewFiles(fetch.files, responses), submit, intr)

\* the try block of review_pull_request, run against the mapping and the history:
\*   fetch     what get_pull_request_files does: [raised, files]
\*   responses what the oracle answers for each file, were it asked
\*   submit    what submit_review does: [raised, id]
\*   intr      the statement at which a KeyboardInterrupt arrives, or "none":
\*             "fetch" (fetching the files), "analyze" (the file loop done),
\*             "store" (submit_review returned, store_review not begun),
\*             "history" (in store_review, the mapping written, the history
\*             not), "return" (store_review done)
TryBlock(mapping, history, now, repo_name, pr_number, fetch, responses, submit, intr) ==
    IF intr = "fetch"
    THEN Ended("KeyboardInterrupt", "fetch", << >>, << >>, FALSE, EmptyDict,
               mapping, history)
    ELSE IF fetch.raised
    THEN Ended("Exception", "fetch", << >>, << >>, FALSE, EmptyDict, mapping, history)
    ELSE AnalyseAndSubmit(mapping, history, now, repo_name, pr_number, fetch.files,
                          ReviewFiles(fetch.files, responses), submit, intr)

\* a bare "except:", which catches a KeyboardInterrupt too
CatchesAll(exc) == exc \in {"Exception", "KeyboardInterrupt"}

\* no handler: whatever the try block raises reaches the caller
CatchesNothing(exc) == FALSE

\* "except Exception as e": the clause catches what derives from Exception,
\* which KeyboardInterrupt does not
Catches(exc) == exc = "Exception"

\* the except clause of review_pull_request, t being how the try block ended:
\*   result   "ok" (review_data returned), "error" ({"error": ...} returned) or
\*            "raised" (the exception t.exc reached the caller)
Handle(t) ==
    [result |-> IF t.exc = "none" THEN "ok"
                ELSE IF Catches(t.exc) THEN "error" ELSE "raised",
     exc |-> t.exc, at |-> t.at, oracle_calls |-> t.oracle_calls,
     comments |-> t.comments, submitted |-> t.submitted,
     review_data |-> t.review_data, mapping |-> t.mapping, history |-> t.history]

\* review_pull_request
ReviewPullRequest(mapping, history, now, repo_name, pr_number, fetch, responses, submit, intr) ==
    Handle(TryBlock(mapping, history, now, repo_name, pr_number, fetch, responses,
                    submit, intr))

-----------------------------------------------------------------------------
(* PRReviewerAgent.scan_for_new_prs                                        *)

\* one round of "for repo_name in self.memory.org_repos": answer is what
\* get_open_pull_requests does for this repository, [raised, prs]
ScanRepo(all_prs, repo_name, answer) ==
    IF answer.raised THEN all_prs
    ELSE all_prs \o [i \in 1..Len(answer.prs) |->
                        [repo |-> repo_name, number |-> answer.prs[i]]]

\* the try around the whole loop: the first failing repository ends the scan
RECURSIVE ScanFromAbort(_, _, _, _)
ScanFromAbort(all_prs, repos, answers, i) ==
    IF i > Len(repos) \/ answers[i].raised THEN all_prs
    ELSE ScanFromAbort(ScanRepo(all_prs, repos[i], answers[i]), repos, answers, i + 1)

RECURSIVE ScanFrom(_, _, _, _)
ScanFrom(all_prs, repos, answers, i) ==
    IF i > Len(repos) THEN all_prs
    ELSE ScanFrom(ScanRepo(all_prs, repos[i], answers[i]), repos, answers, i + 1)

\* scan_for_new_prs, answers[i] being the platform's answer for repos[i]
ScanForNewPrs(repos, answers) == ScanFrom(<< >>, repos, answers, 1)

-----------------------------------------------------------------------------
(* The environment: what the platform and the oracle may answer.           *)

Repos == {"A", "B", "C"}

\* get_organization_repos: the repository names it may return
RepoLists == { << "A" >>, << "A", "B", "C" >>, << "B", "B" >> }

\* get_open_pull_requests: it raises, or returns the open requests' numbers
ListingAnswers ==
    { [raised |-> TRUE, prs |-> << >>],
      [raised |-> FALSE, prs |-> << 1 >>],
      [raised |-> FALSE, prs |-> << 1, 2 >>] }

\* _get_file_content, as the length of the string it returns: retrieved tells
\* whether get_contents and the decoding succeeded, length is the length of the
\* decoded content, or of the message of the exception
GetFileContent(retrieved, length) ==
    IF retrieved THEN length ELSE ErrorPrefixLen + length

\* an entry of get_pull_request_files whose content was retrieved; unretrieved
\* is no key of the entry: it tells the content is the error string
File(filename, changes, content) ==
    [filename |-> filename, changes |-> changes,
     content |-> GetFileContent(TRUE, content), unretrieved |-> FALSE]

\* an entry whose content could not be retrieved, the exception's message
\* being message characters long
Unretrieved(filename, changes, message) ==
    [filename |-> filename, changes |-> changes,
     content |-> GetFileContent(FALSE, message), unretrieved |-> TRUE]

Issue(severity, line_number) ==
    [severity |-> severity, description |-> "d", line_number |-> line_number,
     suggestion |-> "s"]

Change(line_number) ==
    [line_number |-> line_number, original_code |-> "o", suggested_code |-> "c",
     explanation |-> "e"]

Answer(json) == [raises |-> FALSE, status_code |-> 200, valid |-> TRUE, json |-> json]

Ok8 == Answer([issues |-> << Issue("high", 3) >>, code_quality_score |-> 8,
               suggested_changes |-> << Change(5) >>, general_feedback |-> "g"])
Ok6 == Answer([issues |-> << >>, code_quality_score |-> 6,
               suggested_changes |-> << >>, general_feedback |-> "g"])
Ok4 == Answer([issues |-> << Issue("low", 1), Issue("medium", 2) >>,
               code_quality_score |-> 4, suggested_changes |-> << >>,
               general_feedback |-> "g"])
\* valid JSON without a score
NoScore == Answer([issues |-> << Issue("low", 1) >>])
\* valid JSON, an issue of which has no line_number
BadIssue == Answer([issues |-> << [severity |-> "high", description |-> "d"] >>,
                    code_quality_score |-> 9])
\* a success response whose text is not JSON
NotJson == [raises |-> FALSE, status_code |-> 200, valid |-> FALSE, json |-> EmptyDict]
\* a non-success transport response
Http500 == [raises |-> FALSE, status_code |-> 500, valid |-> FALSE, json |-> EmptyDict]
\* requests.post raises
ConnError == [raises |-> TRUE, status_code |-> 0, valid |-> FALSE, json |-> EmptyDict]

FetchRaises == [raised |-> TRUE, files |-> << >>]
Fetched(files) == [raised |-> FALSE, files |-> files]

IntrPoints == {"fetch", "analyze", "store", "history", "return"}

OneFile == Fetched(<< File("a.py", 3, 10) >>)
TwoFiles == Fetched(<< File("a.py", 3, 10), File("y.js", 1, 10) >>)

\* the inputs of a call in the orchestration (Spec):
\* << fetch, responses, submit_raised, intr >>
SmallInputs ==
    { << FetchRaises, << >>, FALSE, "none" >>,
      << OneFile, << NotJson >>, FALSE, "none" >>,
      << TwoFiles, << Http500, NoScore >>, FALSE, "none" >>,
      << OneFile, << Ok8 >>, TRUE, "none" >> }
    \cup { << OneFile, << Ok8 >>, FALSE, intr >> : intr \in IntrPoints \cup {"none"} }

FourFiles == << File("x.py", 5, 10), File("y.js", 2, SizeCeiling),
                File("big.bin", 7, SizeCeiling + 1), File("z.java", 1, 1) >>

\* the inputs of the pipeline check (ReviewSpec): << fetch, responses >>; a file
\* that is skipped gets the one answer Ok8, were the oracle asked for it
RichInputs ==
    { << FetchRaises, << >> >>, << Fetched(<< >>), << >> >> }
    \cup { << Fetched(<< File("e.txt", 4, 0), File("big.bin", 9, SizeCeiling + 1) >>),
              << Ok8, Ok8 >> >> }
    \cup { << Fetched(<< File("a.py", 3, c) >>), << r >> >> :
              c \in {1, SizeCeiling}, r \in {Ok8, NoScore, BadIssue, ConnError} }
    \cup { << Fetched(<< Unretrieved("x.py", 2, message), File("y.js", 1, 10) >>),
              << r, Ok6 >> >> :
              message \in {0, 9, SizeCeiling}, r \in {Ok8, Http500} }
    \cup { << Fetched(FourFiles), << r1, r2, Ok8, r4 >> >> :
              r1 \in {Ok8, NotJson, Http500},
              r2 \in {Ok6, Ok8, NotJson},
              r4 \in {Ok4, Ok8, Http500} }

\* documents of a custom standards file
DocA == [a |-> "1"]
DocB == [b |-> "2"]

\* the dicts a standards file may hold
StandardsDicts ==
    { EmptyDict, "Java" :> DocA, "Java" :> DocB, "Go" :> DocA,
      ("Java" :> DocB) @@ ("Python" :> DocA), ("Go" :> DocB) @@ ("Java" :> DocA) }

\* what json.load may give for a standards file that is JSON
JsonValues ==
    { AsDict(d) : d \in StandardsDicts }
    \cup { Scalar, AsList(<< >>), AsList(<< NoPair >>),
           AsList(<< Pair("Java", DocB), Pair("Go", DocA) >>),
           AsList(<< Pair("Python", DocB), NoPair, Pair("Go", DocB) >>) }

\* the standards files load_custom_standards may be given
StandardsFiles ==
    { [status |-> st, json |-> Scalar] : st \in {"missing", "unreadable", "invalid_json"} }
    \cup { [status |-> "json", json |-> j] : j \in JsonValues }

NoLoad == [op |-> "none", file |-> [status |-> "none", json |-> Scalar],
           before |-> EmptyDict, failed |-> FALSE, raised |-> FALSE]

-----------------------------------------------------------------------------
(* The state after construction: PRReviewerAgent.__init__ has fetched the  *)
(* repository list and loaded the default standards.                       *)

NoScan == [repos |-> << >>, answers |-> << >>]

NoCall == [call |-> 0, by |-> "none", pr_id |-> "", fetch |-> FetchRaises,
           responses |-> << >>, submit_raised |-> FALSE, intr |-> "none",
           result |-> "none", exc |-> "none", at |-> "none", oracle_calls |-> << >>,
           comments |-> << >>, submit_called |-> FALSE, submitted |-> FALSE,
           review_data |-> EmptyDict]

Init ==
    /\ reviewed_prs = EmptyDict
    /\ refreshed \in RepoLists
    /\ org_repos = SetOrgRepos(<< >>, refreshed)
    /\ review_history = << >>
    /\ coding_standards = UpdateCodingStandards(EmptyDict, AsDict(DefaultStandards)).standards
    /\ pc = "idle"
    /\ interval = 15
    /\ open_prs = << >>
    /\ idx = 1
    /\ stop_cause = "none"
    /\ calls = 0
    /\ submit_calls = << >>
    /\ last = NoCall
    /\ listing = NoScan
    /\ tried = {}
    /\ failed_cur = {}
    /\ failed_prev = {}
    /\ last_load = NoLoad

-----------------------------------------------------------------------------
(* One call of review_pull_request, by the loop or directly.               *)

\* the except clauses of run_continuous_review, for an exception that reaches them
LoopExit(exc) == IF exc = "KeyboardInterrupt" THEN "interrupt" ELSE "fatal"

\* The call's effect on the memory and on the platform, and its record in last,
\* out being what review_pull_request did. An interrupt point, and a failure of
\* submit_review, are inputs only where the call gets that far.
Reviewed(by, pr_id, fetch, responses, submit_raised, intr, out) ==
    /\ intr # "none" => (out.exc = "KeyboardInterrupt" /\ out.at = intr)
    /\ submit_raised => out.at = "submit"
    /\ reviewed_prs' = out.mapping
    /\ review_history' = out.history
    /\ calls' = calls + 1
    /\ submit_calls' =
          IF out.submitted \/ out.at = "submit"
          THEN Append(submit_calls,
                      [pr_id |-> pr_id, by |-> by, call |-> calls + 1,
                       ok |-> out.submitted,
                       stored |-> out.history # review_history])
          ELSE submit_calls
    /\ last' = [call |-> calls + 1, by |-> by, pr_id |-> pr_id, fetch |-> fetch,
                responses |-> responses, submit_raised |-> submit_raised,
                intr |-> intr, result |-> out.result, exc |-> out.exc,
                at |-> out.at, oracle_calls |-> out.oracle_calls,
                comments |-> out.comments,
                submit_called |-> (out.submitted \/ out.at = "submit"),
                submitted |-> out.submitted, review_data |-> out.review_data]
    /\ UNCHANGED << org_repos, coding_standards, last_load, refreshed >>

Review(by, repo_name, pr_number, fetch, responses, submit_raised, intr) ==
    Reviewed(by, PrId(repo_name, pr_number), fetch, responses, submit_raised, intr,
             ReviewPullRequest(reviewed_prs, review_history, calls + 1, repo_name,
                               pr_number, fetch, responses,
                               [raised |-> submit_raised, id |-> Len(submit_calls) + 1],
                               intr))

\* app.py, single mode, or any caller of the method: the call returns to the
\* caller, or the exception it lets through ends the process
DirectReviewOf(repo_name, pr_number, fetch, responses, submit_raised, intr) ==
    /\ pc = "idle"
    /\ Review("direct", repo_name, pr_number, fetch, responses, submit_raised, intr)
    /\ pc' = IF last'.result = "raised" THEN "killed" ELSE "idle"
    /\ UNCHANGED << interval, open_prs, idx, stop_cause, listing, tried, failed_cur,
                    failed_prev >>

DirectReview ==
    /\ calls < MaxCalls
    /\ \E repo_name \in {"A", "B"}, in \in SmallInputs :
          DirectReviewOf(repo_name, 1, in[1], in[2], in[3], in[4])

\* a scan that records what it finds: every request listed is entered in
\* reviewed_prs
DirectScanRecording ==
    /\ pc = "idle"
    /\ \E answers \in [1..Len(org_repos) -> ListingAnswers] :
          /\ open_prs' = ScanForNewPrs(org_repos, answers)
          /\ listing' = [repos |-> org_repos, answers |-> answers]
    /\ reviewed_prs' =
          [k \in DOMAIN reviewed_prs
                 \cup { PrId(open_prs'[i].repo, open_prs'[i].number) :
                           i \in 1..Len(open_prs') } |->
              IF k \in DOMAIN reviewed_prs THEN reviewed_prs[k] ELSE EmptyDict]
    /\ UNCHANGED << org_repos, review_history, coding_standards, pc, interval, idx,
                    stop_cause, calls, submit_calls, last, tried, failed_cur,
                    failed_prev, last_load, refreshed >>

\* scan mode: scan_for_new_prs called on its own
DirectScan ==
    /\ pc = "idle"
    /\ \E answers \in [1..Len(org_repos) -> ListingAnswers] :
          /\ open_prs' = ScanForNewPrs(org_repos, answers)
          /\ listing' = [repos |-> org_repos, answers |-> answers]
    /\ UNCHANGED << memory, pc, interval, idx, stop_cause, calls, submit_calls, last,
                    tried, failed_cur, failed_prev, last_load, refreshed >>

-----------------------------------------------------------------------------
(* run_continuous_review                                                   *)

Looping == pc \in {"refresh", "scan", "review", "sleep"}

\* the call: the loop is entered, its local open_prs not yet bound
RunContinuousReview ==
    /\ pc = "idle"
    /\ pc' = "refresh"
    /\ interval' \in {15, -1}
    /\ open_prs' = << >>
    /\ listing' = NoScan
    /\ UNCHANGED << memory, idx, stop_cause, calls, submit_calls, last, tried,
                    failed_cur, failed_prev, last_load, refreshed >>

\* self.update_org_repos(): the list is replaced, or the platform raises and
\* the exception ends the loop
LoopUpdateOrgRepos ==
    /\ pc = "refresh"
    /\ \/ /\ refreshed' \in RepoLists
          /\ org_repos' = SetOrgRepos(org_repos, refreshed')
          /\ pc' = "scan"
          /\ UNCHANGED stop_cause
       \/ /\ pc' = "stopped"
          /\ stop_cause' = LoopExit("Exception")
          /\ UNCHANGED << org_repos, refreshed >>
    /\ UNCHANGED << reviewed_prs, review_history, coding_standards, interval, open_prs,
                    idx, calls, submit_calls, last, listing, tried, failed_cur,
                    failed_prev, last_load >>

\* open_prs = self.scan_for_new_prs()
LoopScan ==
    /\ pc = "scan"
    /\ \E answers \in [1..Len(org_repos) -> ListingAnswers] :
          /\ open_prs' = ScanForNewPrs(org_repos, answers)
          /\ listing' = [repos |-> org_repos, answers |-> answers]
    /\ idx' = 1
    /\ pc' = "review"
    /\ UNCHANGED << memory, interval, stop_cause, calls, submit_calls, last, tried,
                    failed_cur, failed_prev, last_load, refreshed >>

\* "for pr in open_prs", a request whose key is in reviewed_prs
LoopSkipReviewed ==
    /\ pc = "review"
    /\ idx <= Len(open_prs)
    /\ ~ NotReviewed(PrId(open_prs[idx].repo, open_prs[idx].number))
    /\ idx' = idx + 1
    /\ UNCHANGED << memory, pc, interval, open_prs, stop_cause, calls, submit_calls,
                    last, listing, tried, failed_cur, failed_prev, last_load, refreshed >>

\* "for pr in open_prs", a request whose key is not in reviewed_prs
LoopReviewOf(fetch, responses, submit_raised, intr) ==
    LET pr == open_prs[idx]
        pr_id == PrId(pr.repo, pr.number)
    IN  /\ NotReviewed(pr_id)
        /\ Review("loop", pr.repo, pr.number, fetch, responses, submit_raised, intr)
        /\ tried' = tried \cup {pr_id}
        /\ failed_cur' = IF last'.result = "error" THEN failed_cur \cup {pr_id}
                         ELSE failed_cur \ {pr_id}
        /\ IF last'.result = "raised"
           THEN /\ pc' = "stopped"
                /\ stop_cause' = LoopExit(last'.exc)
                /\ idx' = idx
           ELSE /\ pc' = "review"
                /\ stop_cause' = stop_cause
                /\ idx' = idx + 1
        /\ UNCHANGED << interval, open_prs, listing, failed_prev >>

LoopReview ==
    /\ pc = "review"
    /\ idx <= Len(open_prs)
    /\ calls < MaxCalls
    /\ \E in \in SmallInputs : LoopReviewOf(in[1], in[2], in[3], in[4])

\* the for loop is over
LoopEndFor ==
    /\ pc = "review"
    /\ idx > Len(open_prs)
    /\ pc' = "sleep"
    /\ UNCHANGED << memory, interval, open_prs, idx, stop_cause, calls, submit_calls,
                    last, listing, tried, failed_cur, failed_prev, last_load, refreshed >>

\* time.sleep(interval_minutes * 60), which raises ValueError on a negative
\* length; then the next cycle
LoopSleep ==
    /\ pc = "sleep"
    /\ IF interval * 60 < 0
       THEN /\ pc' = "stopped"
            /\ stop_cause' = LoopExit("Exception")
            /\ UNCHANGED << tried, failed_cur, failed_prev >>
       ELSE /\ pc' = "refresh"
            /\ stop_cause' = stop_cause
            /\ tried' = {}
            /\ failed_cur' = {}
            /\ failed_prev' = failed_cur
    /\ UNCHANGED << memory, interval, open_prs, idx, calls, submit_calls, last,
                    listing, last_load, refreshed >>

\* a KeyboardInterrupt while the loop is refreshing, scanning, between two
\* requests or sleeping
LoopInterrupt ==
    /\ Looping
    /\ pc' = "stopped"
    /\ stop_cause' = LoopExit("KeyboardInterrupt")
    /\ UNCHANGED << memory, interval, open_prs, idx, calls, submit_calls, last,
                    listing, tried, failed_cur, failed_prev, last_load, refreshed >>

Next ==
    \/ DirectReview
    \/ DirectScan
    \/ RunContinuousReview
    \/ LoopUpdateOrgRepos
    \/ LoopScan
    \/ LoopSkipReviewed
    \/ LoopReview
    \/ LoopEndFor
    \/ LoopSleep
    \/ LoopInterrupt

Spec == Init /\ [][Next]_vars

-----------------------------------------------------------------------------
(* The pipeline of review_pull_request on its own, over richer inputs.     *)

\* the inputs of a call: << fetch, responses, submit_raised, intr >>
RichCalls ==
    { << in[1], in[2], submit_raised, "none" >> :
         in \in RichInputs, submit_raised \in BOOLEAN }
    \cup { << OneFile, << Ok8 >>, FALSE, intr >> : intr \in IntrPoints }

RichReview ==
    /\ calls < MaxDirectCalls
    /\ \E in \in RichCalls : DirectReviewOf("A", 7, in[1], in[2], in[3], in[4])

NextReview == RichReview

ReviewSpec == Init /\ [][NextReview]_vars

-----------------------------------------------------------------------------
(* The Standards Registry on its own: load_custom_standards, which           *)
(* setup_pr_reviewer calls, and update_coding_standards called directly.     *)

\* what the call did to the standards, and its record in last_load
StandardsWritten(op, file, out) ==
    /\ pc = "idle"
    /\ coding_standards' = out.standards
    /\ last_load' = [op |-> op, file |-> file, before |-> coding_standards,
                     failed |-> out.failed, raised |-> out.raised]
    /\ pc' = IF out.raised THEN "killed" ELSE "idle"
    /\ UNCHANGED << reviewed_prs, org_repos, review_history, interval, open_prs, idx,
                    stop_cause, calls, submit_calls, last, listing, tried,
                    failed_cur, failed_prev, refreshed >>

\* agent.load_custom_standards(standards_file)
LoadCustomStandardsCall ==
    \E file \in StandardsFiles :
        StandardsWritten("load_custom_standards", file,
                         LoadCustomStandards(coding_standards, file))

\* memory.update_coding_standards(standards)
UpdateCodingStandardsCall ==
    \E arg \in JsonValues :
        StandardsWritten("update_coding_standards", [status |-> "json", json |-> arg],
                         [raised |-> UpdateCodingStandards(coding_standards, arg).raised,
                          failed |-> UpdateCodingStandards(coding_standards, arg).raised,
                          standards |->
                             UpdateCodingStandards(coding_standards, arg).standards])

NextStandards ==
    \/ LoadCustomStandardsCall
    \/ UpdateCodingStandardsCall

StandardsSpec == Init /\ [][NextStandards]_vars

-----------------------------------------------------------------------------
(* Properties.                                                             *)

\* the keys of the requests of the latest scan
OpenKeys == { PrId(open_prs[k].repo, open_prs[k].number) : k \in 1..Len(open_prs) }

\* C1. At-most-once review: once a review_pull_request call has submitted the
\* review of a request and stored its record, no iteration of
\* run_continuous_review makes a later submit_review call for that request.
AtMostOnceReview ==
    \A i, j \in 1..Len(submit_calls) :
        (/\ i < j
         /\ submit_calls[i].stored
         /\ submit_calls[j].pr_id = submit_calls[i].pr_id)
        => submit_calls[j].by # "loop"

\* a request reviewed and recorded before the loop began was found open by a
\* scan, the loop went past it, and the cycle ended
ReviewedRequestPassed ==
    /\ pc = "sleep"
    /\ \E i \in 1..Len(submit_calls) :
          /\ submit_calls[i].by = "direct"
          /\ submit_calls[i].stored
          /\ submit_calls[i].pr_id \in OpenKeys
          /\ submit_calls[i].pr_id \in DOMAIN reviewed_prs

\* C2. At most one ReviewRecord is ever created for a key: the history holds
\* at most one entry per key.
OneRecordPerKey ==
    \A i, j \in 1..Len(review_history) :
        i < j => review_history[i].pr_id # review_history[j].pr_id

\* the skip rule as the specification words it
NonSkipped(file) == file.content # 0 /\ file.content <= 100000

\* a success response whose embedded text is not valid JSON
IsNotJson(response) ==
    ~ response.raises /\ response.status_code = 200 /\ ~ response.valid

\* the call c was answered that way for a file it does not skip
AnsweredNotJson(c) ==
    /\ ~ c.fetch.raised
    /\ \E i \in 1..Len(c.fetch.files) :
          NonSkipped(c.fetch.files[i]) /\ IsNotJson(c.responses[i])

\* C3. A review one of whose non-skipped files the oracle answers with a success
\* response that is not valid JSON returns an error result, calls submit_review
\* not at all, and leaves the mapping and the history as they were.
MalformedJsonFails ==
    [][(calls' = calls + 1 /\ AnsweredNotJson(last'))
       => /\ last'.result = "error"
          /\ ~ last'.submit_called
          /\ submit_calls' = submit_calls
          /\ reviewed_prs' = reviewed_prs
          /\ review_history' = review_history]_vars

\* the second review of a recorded request failed on the text of its fourth
\* file, after two files were analysed
MalformedJsonSeen ==
    /\ last.result = "error"
    /\ AnsweredNotJson(last)
    /\ Len(last.oracle_calls) >= 2
    /\ last.pr_id \in DOMAIN reviewed_prs

\* the answer for a file makes analyze_code or format_review_comments raise
AnswerRaises(response) ==
    \/ response.raises
    \/ IsNotJson(response)
    \/ /\ response.status_code = 200
       /\ response.valid
       /\ \/ \E i \in 1..Len(Get(response.json, "issues", << >>)) :
                ~ (IssueKeys \subseteq DOMAIN response.json["issues"][i])
          \/ \E i \in 1..Len(Get(response.json, "suggested_changes", << >>)) :
                ~ (ChangeKeys \subseteq DOMAIN response.json["suggested_changes"][i])

\* some step of the call c raises an exception
InputRaises(c) ==
    \/ c.fetch.raised
    \/ \E i \in 1..Len(c.fetch.files) :
          NonSkipped(c.fetch.files[i]) /\ AnswerRaises(c.responses[i])
    \/ c.submit_raised

RetryOnFailure ==
    /\ \A k \in failed_cur : k \notin DOMAIN reviewed_prs
    /\ pc = "sleep" => \A k \in failed_prev : k \in OpenKeys => k \in tried

\* a review failed in one cycle and was made again in the next
FailedReviewRetried ==
    /\ pc = "sleep"
    /\ \E k \in failed_prev : k \in tried /\ k \in OpenKeys

\* the loop was stopped by an interrupt that arrived in a review whose
\* submit_review call had succeeded and whose record is not stored
StoppedBetweenSubmitAndStore ==
    /\ pc = "stopped"
    /\ stop_cause = "interrupt"
    /\ last.by = "loop"
    /\ last.result = "raised"
    /\ last.submitted
    /\ \E i \in 1..Len(submit_calls) :
          submit_calls[i].pr_id = last.pr_id /\ submit_calls[i].ok
    /\ last.pr_id \notin DOMAIN reviewed_prs

Filenames(seq) == { seq[j].filename : j \in 1..Len(seq) }
Paths(comments) == { comments[j].path : j \in 1..Len(comments) }

\* C7. Skip rule: in the latest review, a file whose content is empty or longer
\* than 100,000 characters had no oracle call, has no comment and no entry in
\* the file analyses (so none in the summary's breakdown and score); a file of
\* exactly 100,000 characters, in a review that succeeded, had its oracle call
\* and has its entry.
SkipRule ==
    (last.call > 0 /\ ~ last.fetch.raised)
    => \A i \in 1..Len(last.fetch.files) :
          LET f == last.fetch.files[i]
          IN  /\ (f.content = 0 \/ f.content > 100000)
                 => /\ f.filename \notin Filenames(last.oracle_calls)
                    /\ f.filename \notin Paths(last.comments)
                    /\ last.result = "ok"
                          => /\ f.filename \notin
                                   Filenames(last.review_data.overall_analysis.file_analyses)
                             /\ f.filename \notin
                                   Filenames(last.review_data.summary.breakdown)
              /\ (f.content = 100000 /\ last.result = "ok")
                 => /\ f.filename \in Filenames(last.oracle_calls)
                    /\ f.filename \in
                          Filenames(last.review_data.overall_analysis.file_analyses)

\* a review succeeded on four files, one of exactly 100,000 characters and one
\* of 100,001, and made three oracle calls
CeilingFileReviewed ==
    /\ last.result = "ok"
    /\ last.fetch.files = FourFiles
    /\ Len(last.oracle_calls) = 3
    /\ \E i \in 1..4 : FourFiles[i].content = 100000
    /\ \E i \in 1..4 : FourFiles[i].content = 100001

\* the score the code takes from an answer that raised nothing
ScoreOf(response) ==
    IF response.status_code = 200 /\ response.valid
       /\ "code_quality_score" \in DOMAIN response.json
    THEN response.json["code_quality_score"]
    ELSE 0

\* the scores of the non-skipped files of the call c, a skipped file counting 0
ScoresOf(c) ==
    [i \in 1..Len(c.fetch.files) |->
        IF NonSkipped(c.fetch.files[i]) THEN ScoreOf(c.responses[i]) ELSE 0]

ScoredCount(c) ==
    Cardinality({ i \in 1..Len(c.fetch.files) : NonSkipped(c.fetch.files[i]) })

\* C8. Score aggregation: the score a successful review shows is the sum of the
\* scores of its non-skipped files divided by their number, to the nearest
\* tenth, and 0 when it has no such file; a review none of whose files is
\* scored, with fetch and submit succeeding, is submitted and recorded.
ScoreAggregation ==
    /\ last.result = "ok"
       => LET n == ScoredCount(last)
              sum == SumSeq(ScoresOf(last))
              tenths == last.review_data.summary.score_tenths
              diff == 10 * sum - tenths * n
          IN  /\ n = 0 => tenths = 0
              /\ n > 0 => 2 * (IF diff < 0 THEN 0 - diff ELSE diff) <= n
              /\ Len(last.review_data.overall_analysis.file_analyses) = n
    /\ (/\ last.call > 0
        /\ last.intr = "none"
        /\ ~ last.fetch.raised
        /\ ~ last.submit_raised
        /\ ScoredCount(last) = 0)
       => /\ last.result = "ok"
          /\ last.submitted
          /\ last.pr_id \in DOMAIN reviewed_prs
          /\ reviewed_prs[last.pr_id] = last.review_data
          /\ review_history[Len(review_history)].review = last.review_data

\* scores 8, 6 and 4 and one skipped file: the review shows 6.0
ScoresEightSixFour ==
    /\ last.result = "ok"
    /\ last.fetch.files = FourFiles
    /\ last.responses = << Ok8, Ok6, Ok8, Ok4 >>
    /\ last.review_data.summary.score_tenths = 60

\* the number of requests the answers before the i-th gave the scan
Before(answers, i) ==
    SumSeq([j \in 1..(i - 1) |-> IF answers[j].raised THEN 0 ELSE Len(answers[j].prs)])

\* C9. Partial repository failure: the result of a scan is the open requests of
\* the repositories whose listing succeeded, in repository-list order and each
\* repository's in the order listed, whichever listings failed.
PartialScan ==
    LET repos == listing.repos
        answers == listing.answers
    IN  /\ Len(open_prs) = Before(answers, Len(repos) + 1)
        /\ \A i \in 1..Len(repos) :
              ~ answers[i].raised
              => \A k \in 1..Len(answers[i].prs) :
                    open_prs[Before(answers, i) + k] =
                       [repo |-> repos[i], number |-> answers[i].prs[k]]

\* the listing of B failed between those of A and C, which gave three requests
ScannedAroundFailure ==
    /\ listing.repos = << "A", "B", "C" >>
    /\ listing.answers[2].raised
    /\ ~ listing.answers[1].raised
    /\ ~ listing.answers[3].raised
    /\ Len(open_prs) = 3

\* C10. run_continuous_review ends only on an interrupt or on an exception
\* raised outside the guarded steps (the refresh of the repository list, the
\* sleep), and then runs nothing more; a scan, whatever listings failed, is
\* followed by the for loop, and a failed review by the next request.
LoopEndsOnlyOnInterruptOrFatal ==
    [][/\ (pc' = "stopped" /\ pc # "stopped")
          => /\ Looping
             /\ stop_cause' \in {"interrupt", "fatal"}
             /\ stop_cause' = "fatal" => (pc \in {"refresh", "sleep"} /\ calls' = calls)
       /\ (pc = "scan" /\ stop_cause' = "none") => (pc' = "review" /\ idx' = 1)
       /\ (calls' = calls + 1 /\ last'.by = "loop" /\ last'.result = "error")
          => (pc' = "review" /\ idx' = idx + 1 /\ stop_cause' = "none")
       /\ pc = "stopped" => (pc' = "stopped" /\ calls' = calls)]_vars

\* reviews failed in a cycle that went on to its end, and the refresh of the
\* next cycle ended the loop
FatalAfterFailedReview ==
    /\ pc = "stopped"
    /\ stop_cause = "fatal"
    /\ failed_prev # {}
    /\ \E answer \in { listing.answers[i] : i \in 1..Len(listing.answers) } :
          answer.raised

\* C11. A file whose content could not be retrieved, the platform client giving
\* the error string for its content, is handled like an empty file: the latest
\* review made no oracle call for it.
UnretrievedFileSkipped ==
    (last.call > 0 /\ ~ last.fetch.raised)
    => \A i \in 1..Len(last.fetch.files) :
          last.fetch.files[i].unretrieved
          => last.fetch.files[i].filename \notin Filenames(last.oracle_calls)

\* a success response whose embedded text is valid JSON
IsValidJson(response) ==
    ~ response.raises /\ response.status_code = 200 /\ response.valid

\* C12. Missing fields of a valid JSON answer are defaults, not errors: a
\* review whose fetch and submit succeed and whose non-skipped files are all
\* answered with valid JSON returns no error, and is submitted and recorded.
MissingFieldsDefaulted ==
    (/\ last.call > 0
     /\ last.intr = "none"
     /\ ~ last.fetch.raised
     /\ ~ last.submit_raised
     /\ \A i \in 1..Len(last.fetch.files) :
           NonSkipped(last.fetch.files[i]) => IsValidJson(last.responses[i]))
    => /\ last.result = "ok"
       /\ last.submitted
       /\ last.pr_id \in DOMAIN reviewed_prs
       /\ reviewed_prs[last.pr_id] = last.review_data

\* a non-success transport response
IsTransportFailure(response) == ~ response.raises /\ response.status_code # 200

\* no non-skipped file of the call c before the i-th has an answer that raises
NoRaiseBefore(c, i) ==
    \A j \in 1..(i - 1) :
        NonSkipped(c.fetch.files[j]) => ~ AnswerRaises(c.responses[j])

\* the submit_review calls the platform received from the call numbered n
SubmitsOf(n) == { k \in 1..Len(submit_calls) : submit_calls[k].call = n }

\* C13. A non-success transport response for one file does not abort the
\* review: analyze_code returns an error-flagged result without raising, the
\* file has its oracle call and no comment, every later non-skipped file is
\* analysed as far as no answer raises, and when none does and submit_review
\* succeeds the review is submitted exactly once, with the file entered.
TransportFailureTolerated ==
    (last.call > 0 /\ last.intr = "none" /\ ~ last.fetch.raised)
    => \A i \in 1..Len(last.fetch.files) :
          (/\ NonSkipped(last.fetch.files[i])
           /\ IsTransportFailure(last.responses[i])
           /\ NoRaiseBefore(last, i))
          => /\ ~ AnalyzeCode(last.responses[i]).raised
             /\ "error" \in DOMAIN AnalyzeCode(last.responses[i]).analysis
             /\ last.fetch.files[i].filename \in Filenames(last.oracle_calls)
             /\ last.fetch.files[i].filename \notin Paths(last.comments)
             /\ \A j \in (i + 1)..Len(last.fetch.files) :
                   (NonSkipped(last.fetch.files[j]) /\ NoRaiseBefore(last, j))
                   => last.fetch.files[j].filename \in Filenames(last.oracle_calls)
             /\ (NoRaiseBefore(last, Len(last.fetch.files) + 1) /\ ~ last.submit_raised)
                   => /\ last.result = "ok"
                      /\ Cardinality(SubmitsOf(last.call)) = 1
                      /\ last.fetch.files[i].filename \in
                            Filenames(last.review_data.overall_analysis.file_analyses)

\* the oracle failed for the first of four files; the two other non-skipped
\* files were analysed and the review was submitted, with their three comments
TransportFailureSeen ==
    /\ last.result = "ok"
    /\ last.fetch.files = FourFiles
    /\ last.responses = << Http500, Ok8, Ok8, Ok4 >>
    /\ Len(last.oracle_calls) = 3
    /\ Paths(last.comments) = {"y.js", "z.java"}
    /\ Cardinality(SubmitsOf(last.call)) = 1

\* the latest write of the standards was given a dict
WroteDict ==
    /\ last_load.op # "none"
    /\ last_load.file.status = "json"
    /\ last_load.file.json.kind = "dict"

\* C14. Merge semantics of the registry: after update_coding_standards, or a
\* load of a custom file, with a dict, each language of the dict has the dict's
\* document as its whole document, every other language has the document it
\* had, and no language is gone.
ShallowOverwrite ==
    WroteDict
    => LET arg == last_load.file.json.dict
       IN  /\ ~ last_load.failed
           /\ DOMAIN coding_standards = DOMAIN last_load.before \cup DOMAIN arg
           /\ \A lang \in DOMAIN arg : coding_standards[lang] = arg[lang]
           /\ \A lang \in DOMAIN last_load.before \ DOMAIN arg :
                 coding_standards[lang] = last_load.before[lang]

\* {Java: {a: 1}} then {Java: {b: 2}}: Java is {b: 2} only, and Python and
\* JavaScript have their default documents
JavaOverwritten ==
    /\ WroteDict
    /\ last_load.before["Java"] = DocA
    /\ last_load.file.json.dict = ("Java" :> DocB)
    /\ coding_standards["Java"] = DocB
    /\ coding_standards["Python"] = DefaultStandards["Python"]
    /\ coding_standards["JavaScript"] = DefaultStandards["JavaScript"]

\* C16. A failure to load the custom standards (the file missing or unreadable,
\* its text no JSON) is not fatal: load_custom_standards does not raise, whatever
\* the file, and after such a failure the standards are what they were.
LoadFailureKeepsStandards ==
    last_load.op = "load_custom_standards"
    => /\ ~ last_load.raised
       /\ pc # "killed"
       /\ last_load.file.status \in {"missing", "unreadable", "invalid_json"}
             => (last_load.failed /\ coding_standards = last_load.before)

\* custom standards were loaded, and a later load of a file that is no JSON
\* left them
LoadFailedAfterCustom ==
    /\ last_load.op = "load_custom_standards"
    /\ last_load.file.status = "invalid_json"
    /\ last_load.failed
    /\ "Go" \in DOMAIN last_load.before
    /\ coding_standards = last_load.before

\* a step that is a call of scan_for_new_prs, in scan mode or by the loop
ScanStep ==
    \/ pc = "scan" /\ pc' = "review"
    \/ pc = "idle" /\ pc' = "idle" /\ calls' = calls /\ listing' # listing

\* C15. A scan lists without reviewing: a call of scan_for_new_prs, whatever the
\* listings give or fail with, makes no oracle call and no submit_review call
\* and leaves the mapping, the history, the repository list and the standards
\* as they were; it goes through the stored repository list.
ScanOnlyLists ==
    [][ScanStep
       => /\ calls' = calls
          /\ last' = last
          /\ submit_calls' = submit_calls
          /\ reviewed_prs' = reviewed_prs
          /\ review_history' = review_history
          /\ org_repos' = org_repos
          /\ coding_standards' = coding_standards
          /\ listing'.repos = org_repos]_vars

\* a scan in scan mode, one listing of which failed, found open requests, one
\* of them recorded in the mapping, and the mapping holds that record only
ScannedInScanMode ==
    /\ pc = "idle"
    /\ listing # NoScan
    /\ \E i \in 1..Len(listing.answers) : listing.answers[i].raised
    /\ Len(review_history) = 1
    /\ DOMAIN reviewed_prs \subseteq OpenKeys
    /\ Cardinality(OpenKeys) > Cardinality(DOMAIN reviewed_prs)
    /\ Len(submit_calls) = 1

\* the positions of the history's entries for the key k
EntriesOf(k) == { i \in 1..Len(review_history) : review_history[i].pr_id = k }

\* the mapping entry of k is the record of the last history entry for k
MappingIsLastEntry(k) ==
    /\ EntriesOf(k) # {}
    /\ \E i \in EntriesOf(k) :
          /\ \A j \in EntriesOf(k) : j <= i
          /\ reviewed_prs[k] = review_history[i].review

\* no step removes or changes a history entry or removes a key of the mapping,
\* and a step that stores a review adds one history entry, for the key whose
\* mapping entry it sets to the entry's record
AppendOnly ==
    /\ Len(review_history') >= Len(review_history)
    /\ SubSeq(review_history', 1, Len(review_history)) = review_history
    /\ DOMAIN reviewed_prs \subseteq DOMAIN reviewed_prs'
    /\ review_history' # review_history
          => /\ Len(review_history') = Len(review_history) + 1
             /\ LET entry == review_history'[Len(review_history')]
                IN  /\ entry.pr_id \in DOMAIN reviewed_prs'
                    /\ reviewed_prs'[entry.pr_id] = entry.review
                    /\ \A k \in DOMAIN reviewed_prs \ {entry.pr_id} :
                          reviewed_prs'[k] = reviewed_prs[k]

Succeeded == { k \in 1..Len(submit_calls) : submit_calls[k].ok }

\* C18. Submit-then-record: each review_pull_request call makes at most one
\* submit_review call, and makes it after the oracle was called for every
\* non-skipped file; absent an interrupt, the call stores a record if and only
\* if its submit_review call returned, the history has one entry for each
\* submit_review call that returned, and every key of the mapping has had a
\* review submitted.
SubmitThenRecord ==
    /\ \A n \in 1..calls : Cardinality(SubmitsOf(n)) <= 1
    /\ \A k \in 1..Len(submit_calls) : submit_calls[k].stored => submit_calls[k].ok
    /\ last.submit_called
          => /\ ~ last.fetch.raised
             /\ Len(last.oracle_calls) = ScoredCount(last)
             /\ \A i \in 1..Len(last.fetch.files) :
                   NonSkipped(last.fetch.files[i])
                   => last.fetch.files[i].filename \in Filenames(last.oracle_calls)
    /\ last.intr = "none"
          => /\ \A k \in Succeeded : submit_calls[k].stored
             /\ Len(review_history) = Cardinality(Succeeded)
             /\ \A key \in DOMAIN reviewed_prs :
                   \E k \in Succeeded : submit_calls[k].pr_id = key
             /\ (last.call > 0 /\ ~ last.submit_called)
                   => \A i \in 1..Len(review_history) :
                         review_history[i].timestamp # last.call

\* a review of four files was submitted and recorded; in the next one the
\* oracle was called for the three non-skipped files and submit_review raised:
\* two submit_review calls, one history entry
SubmitFailedAfterRecord ==
    /\ last.call = 2
    /\ last.at = "submit"
    /\ last.fetch.files = FourFiles
    /\ Len(last.oracle_calls) = 3
    /\ Len(submit_calls) = 2
    /\ Len(review_history) = 1

\* a valid answer without code_quality_score
IsScoreless(response) ==
    IsValidJson(response) /\ "code_quality_score" \notin DOMAIN response.json

\* the number of non-skipped files of the call c among its first i
Rank(c, i) == Cardinality({ j \in 1..i : NonSkipped(c.fetch.files[j]) })

\* every non-skipped file of the call c got an error-flagged result or a valid
\* answer without code_quality_score, whose issues and changes are complete
AllFailed(c) ==
    /\ ~ c.fetch.raised
    /\ ScoredCount(c) > 0
    /\ \A i \in 1..Len(c.fetch.files) :
          NonSkipped(c.fetch.files[i])
          => /\ IsTransportFailure(c.responses[i]) \/ IsScoreless(c.responses[i])
             /\ ~ AnswerRaises(c.responses[i])

\* C19, as claimed. In a review that succeeded, a non-skipped file whose oracle
\* call gave an error-flagged result, or a valid answer without
\* code_quality_score, is entered in the file analyses with score 0, zero
\* issues and zero suggestions.
FailedAnalysisEnteredEmpty ==
    last.result = "ok"
    => /\ Len(last.review_data.overall_analysis.file_analyses) = ScoredCount(last)
       /\ \A i \in 1..Len(last.fetch.files) :
             (/\ NonSkipped(last.fetch.files[i])
              /\ IsTransportFailure(last.responses[i]) \/ IsScoreless(last.responses[i]))
             => last.review_data.overall_analysis.file_analyses[Rank(last, i)] =
                   [filename |-> last.fetch.files[i].filename,
                    code_quality_score |-> 0, issue_count |-> 0,
                    suggestion_count |-> 0]

\* the entry of the i-th file of the call c, as amended: an error-flagged
\* result gives score 0, no issue and no suggestion, a valid answer without
\* code_quality_score gives score 0 and the issues and suggestions it holds
EnteredWithScoreZero(c, i) ==
    LET entry == c.review_data.overall_analysis.file_analyses[Rank(c, i)]
    IN  /\ entry.filename = c.fetch.files[i].filename
        /\ entry.code_quality_score = 0
        /\ IsTransportFailure(c.responses[i])
              => (entry.issue_count = 0 /\ entry.suggestion_count = 0)
        /\ IsScoreless(c.responses[i])
              => /\ entry.issue_count = Len(Get(c.responses[i].json, "issues", << >>))
                 /\ entry.suggestion_count =
                       Len(Get(c.responses[i].json, "suggested_changes", << >>))

\* C19, amended. A non-skipped file whose oracle call gave an error-flagged
\* result is entered in the file analyses with score 0, no issue and no
\* suggestion, one whose valid answer has no code_quality_score with score 0 and
\* the issues and suggestions the answer holds, and both count in the mean; a
\* request whose every analysis failed in one of these ways is submitted with
\* score 0 and recorded, and the loop reviews no recorded request.
FailedAnalysisCounted ==
    [][calls' = calls + 1
       => /\ last'.result = "ok"
             => /\ Len(last'.review_data.overall_analysis.file_analyses)
                      = ScoredCount(last')
                /\ \A i \in 1..Len(last'.fetch.files) :
                      (/\ NonSkipped(last'.fetch.files[i])
                       /\ IsTransportFailure(last'.responses[i])
                             \/ IsScoreless(last'.responses[i]))
                      => EnteredWithScoreZero(last', i)
          /\ (AllFailed(last') /\ last'.intr = "none" /\ ~ last'.submit_raised)
             => /\ last'.result = "ok"
                /\ last'.submitted
                /\ last'.review_data.summary.score_tenths = 0
                /\ last'.pr_id \in DOMAIN reviewed_prs'
                /\ reviewed_prs'[last'.pr_id] = last'.review_data
          /\ last'.by = "loop" => last'.pr_id \notin DOMAIN reviewed_prs]_vars

\* the loop reviewed a request of two files, one with an error-flagged result
\* and one with an issue and no score, and recorded it with score 0; a later
\* cycle found the request open and went past it
ZeroScoreNotReviewedAgain ==
    /\ pc = "sleep"
    /\ tried = {}
    /\ Len(submit_calls) = 1
    /\ submit_calls[1].by = "loop"
    /\ submit_calls[1].pr_id \in OpenKeys
    /\ submit_calls[1].pr_id \in DOMAIN reviewed_prs
    /\ reviewed_prs[submit_calls[1].pr_id].summary.score_tenths = 0
    /\ reviewed_prs[submit_calls[1].pr_id].overall_analysis.file_analyses =
          << [filename |-> "a.py", code_quality_score |-> 0, issue_count |-> 0,
              suggestion_count |-> 0],
             [filename |-> "y.js", code_quality_score |-> 0, issue_count |-> 1,
              suggestion_count |-> 0] >>

\* where and of which kind the comments for one answer are to be: one per
\* issue, then one per suggested change, at their line numbers
Placed(response, filename) ==
    IF ~ IsValidJson(response) THEN << >>
    ELSE [k \in 1..Len(Get(response.json, "issues", << >>)) |->
             [path |-> filename, position |-> response.json["issues"][k].line_number,
              change |-> FALSE]]
         \o [k \in 1..Len(Get(response.json, "suggested_changes", << >>)) |->
                [path |-> filename,
                 position |-> response.json["suggested_changes"][k].line_number,
                 change |-> TRUE]]

\* those of the files of the call c from the i-th on, in fetch order
RECURSIVE PlacedFrom(_, _)
PlacedFrom(c, i) ==
    IF i > Len(c.fetch.files) THEN << >>
    ELSE (IF NonSkipped(c.fetch.files[i])
          THEN Placed(c.responses[i], c.fetch.files[i].filename)
          ELSE << >>) \o PlacedFrom(c, i + 1)

\* C20. The record of a review that succeeded is consistent: its file analyses
\* are the non-skipped files in fetch order, its comment_count is the number of
\* comments submitted and the sum of their issue and suggestion counts, the
\* comments being one per issue then one per suggested change, file by file,
\* and its file_count and total_changes are over all fetched files; the record
\* stored is this one.
RecordConsistent ==
    last.result = "ok"
    => LET d == last.review_data
           fa == last.review_data.overall_analysis.file_analyses
           files == last.fetch.files
       IN  /\ Len(fa) = ScoredCount(last)
           /\ \A i \in 1..Len(files) :
                 NonSkipped(files[i]) => fa[Rank(last, i)].filename = files[i].filename
           /\ d.comment_count = Len(last.comments)
           /\ d.comment_count =
                 SumSeq([k \in 1..Len(fa) |-> fa[k].issue_count + fa[k].suggestion_count])
           /\ [k \in 1..Len(last.comments) |->
                  [path |-> last.comments[k].path,
                   position |-> last.comments[k].position,
                   change |-> last.comments[k].body[1] = "suggestion"]]
                 = PlacedFrom(last, 1)
           /\ d.overall_analysis.file_count = Len(files)
           /\ d.overall_analysis.total_changes =
                 SumSeq([i \in 1..Len(files) |-> files[i].changes])
           /\ d.summary.file_count = Len(files)
           /\ reviewed_prs[last.pr_id] = d
           /\ review_history[Len(review_history)].review = d

\* four files with 15 changes, one skipped: three file analyses and six
\* comments, for four issues and two suggested changes
RecordOfFourFiles ==
    /\ last.result = "ok"
    /\ last.fetch.files = FourFiles
    /\ last.responses = << Ok8, Ok8, Ok8, Ok4 >>
    /\ last.review_data.comment_count = 6
    /\ Len(last.review_data.overall_analysis.file_analyses) = 3
    /\ last.review_data.overall_analysis.file_count = 4
    /\ last.review_data.overall_analysis.total_changes = 15

\* the repositories of the stored list
Listed == { org_repos[i] : i \in 1..Len(org_repos) }

\* C21. In every cycle the repository list is refreshed before the scan and
\* the scan made before any review: the refresh puts the list the platform
\* returned in place of the stored one, the scan goes through exactly that
\* list, the loop reviews requests of that scan only, and the records of the
\* mapping stay, those of repositories no longer listed too.
RefreshThenScanThenReview ==
    [][/\ pc' = "refresh" => pc \in {"idle", "sleep", "refresh"}
       /\ pc' = "scan" => pc \in {"refresh", "scan"}
       /\ pc' = "review" => pc \in {"scan", "review"}
       /\ (pc = "refresh" /\ pc' = "scan")
             => /\ org_repos' = refreshed'
                /\ reviewed_prs' = reviewed_prs
                /\ review_history' = review_history
       /\ (pc = "scan" /\ pc' = "review")
             => /\ org_repos = refreshed
                /\ listing'.repos = refreshed
                /\ Len(listing'.answers) = Len(refreshed)
                /\ open_prs' = ScanForNewPrs(refreshed, listing'.answers)
                /\ calls' = calls
       /\ (calls' = calls + 1 /\ last'.by = "loop")
             => /\ pc = "review"
                /\ listing.repos = refreshed
                /\ org_repos = refreshed
                /\ last'.pr_id \in OpenKeys
       /\ Looping' => org_repos' = refreshed'
       /\ \A k \in DOMAIN reviewed_prs :
             k \in DOMAIN reviewed_prs' /\ (reviewed_prs'[k] = reviewed_prs[k] \/
                                               (calls' = calls + 1 /\ last'.pr_id = k))]_vars

\* the loop reviewed and recorded a request of B; the next refresh returned A
\* alone, the scan went through A alone, and the record of B is in the mapping
RecordOfUnlistedRepoKept ==
    /\ pc = "sleep"
    /\ org_repos = << "A" >>
    /\ listing.repos = << "A" >>
    /\ Len(submit_calls) = 1
    /\ submit_calls[1].by = "loop"
    /\ submit_calls[1].stored
    /\ PrId("B", 1) \in DOMAIN reviewed_prs
    /\ reviewed_prs[PrId("B", 1)].repo_name \notin Listed
    /\ Len(review_history) = 1

====
